---- MODULE Spec2Model ----
(***************************************************************************)
(* A model of pyrlang.process.Process (src/pyrlang/process.py): the        *)
(* mailbox with its selective receive, the process loop with its           *)
(* supervising wrapper, and the exit-signal protocol with links and        *)
(* monitors.                                                               *)
(*                                                                         *)
(* Scheduling is asyncio's: one task runs at a time and runs until it      *)
(* suspends, so each action below is the code between two suspension       *)
(* points.  asyncio.Queue.get() suspends only on an empty queue, so a scan *)
(* of a non-empty inbox is one step.                                       *)
(*                                                                         *)
(* Environment: at most one receive is in flight per process (concurrent   *)
(* receives are a usage error), so the caller's receive() is issued only   *)
(* while the loop task is not alive.                                       *)
(***************************************************************************)
EXTENDS Integers, Sequences, FiniteSets, Bags, TLC

\* ---------------------------------------------------------------- bounds
MaxDeliver == 3      \* deliver_message calls in one behaviour
MaxExitCalls == 2    \* exit() calls in one behaviour

\* ------------------------------------------------------- value domains
\* Message payloads; 0 is a payload that is falsy in Python.
Vals == {0, 1, 2}
\* A message is <<arrival number, payload>>.
Payload(m) == m[2]

\* Matchers, by name, and the payloads each accepts; "all" is Match(), which
\* accepts everything.  NoMatchArg is receive() called without a matcher.
MatchAll == "all"
NoMatchArg == "None"
Matchers == {NoMatchArg, "two", "never"}
ClassMatchers == {MatchAll, "two"}
Accepted(match) ==
    IF match = "all" THEN Vals ELSE IF match = "two" THEN {2} ELSE {}

Self == "pid0"
Pids == {"p1", "p2"}
Refs == {"r1", "r2"}

NoReason == "None"
NonAtom == "str"
Atoms == {"normal", "kill", "killed", "shutdown", "unhandledexception"}
ExitReasons == {NoReason, "normal", "kill", "shutdown", NonAtom}

VARIABLES
    passive_,       \* self.passive_
    cls_match,      \* self._match (class attribute or Match())
    inbox_,         \* self.inbox_ : sequence of messages
    tmp_inbox,      \* self.__tmp_inbox
    run_task,       \* state of self._run_task (the process_loop task)
    wrapper,        \* state of the run_wrapper task
    rcv,            \* the caller's receive() call: position and arguments
    ret,            \* outcome of the caller's latest receive() call
    handled,        \* messages passed to handle_one_inbox_message, in order
    is_exiting_,    \* self.is_exiting_
    signals,        \* self._signals : sequence of reasons
    monitored_by,   \* self._monitored_by : Refs -|-> Pids
    monitors,       \* self._monitors : Refs -|-> Pids
    links,          \* self._links
    downs,          \* bag of node.send_nowait(receiver, DOWN message) calls
    link_exits,     \* bag of node.send_link_exit_notification calls
    exited,         \* reasons of node.on_exit_process calls, in order
    wake_ups,       \* number of node.signal_wake_up calls
    last_error,     \* exception raised by the latest operation, or "none"
    inbox_ret,      \* what the latest handle_inbox() call returned, if it did
    pending,        \* history: delivered and not yet consumed, arrival order
    n_delivered,    \* history: number of deliver_message calls
    faulted,        \* history: handle_one_inbox_message raised in the loop
    got,            \* history: what the caller's receive() calls returned
    used_pattern,   \* history: receive() was called with a pattern
    last_demonitor  \* history: <<pid, ref>> of the latest remove_monitor
                    \* call, if no add_monitor call came after it

vars == <<passive_, cls_match, inbox_, tmp_inbox, run_task, wrapper, rcv, ret,
          handled, is_exiting_, signals, monitored_by, monitors, links, downs,
          link_exits, exited, wake_ups, last_error, inbox_ret, pending,
          n_delivered,
          faulted, got, used_pattern, last_demonitor>>

regVars == <<monitored_by, monitors, links>>
nodeVars == <<downs, link_exits, exited>>
histVars == <<used_pattern, last_demonitor>>
callVars == <<inbox_ret>>
NoCount == [returned |-> FALSE, n |-> 0]

\* ------------------------------------------------------------- helpers
EmptyMap == [r \in {} |-> Self]

RemoveAt(s, i) == SubSeq(s, 1, i - 1) \o SubSeq(s, i + 1, Len(s))

RemoveMsg(s, m) == SelectSeq(s, LAMBDA x : x # m)

\* match(msg) of pyrlang.match.Match: a pattern, or False
Matches(match, msg) == Payload(msg) \in Accepted(match)

\* matched_pattern.run(msg) of the default pattern hands the message back
Run(msg) == msg

\* Python truth value of a message
Truthy(msg) == Payload(msg) # 0

\* _receive, lines 177-178: no override means the process's own matcher
EffectiveMatch(match) == IF match = NoMatchArg THEN cls_match ELSE match

\* put_nowait as a stack would do it
EnqueueAtFront(queue, item) == <<item>> \o queue

\* asyncio.Queue.put_nowait: the item goes to the tail
Enqueue(queue, item) == Append(queue, item)

\* _cleanup_inbox with its two loops in the other order: the skipped
\* messages end up behind the rest of the inbox
CleanupInboxSkippedLast(inb, tmp) == [inbox |-> inb \o tmp, tmp |-> <<>>]

\* _cleanup_inbox: the rest of the inbox goes behind the skipped messages,
\* then everything goes back to the inbox.
CleanupInbox(inb, tmp) ==
    LET tmp1 == tmp \o inb
        inb1 == <<>>
    IN  [inbox |-> inb1 \o tmp1, tmp |-> <<>>]

\* the while loop of _receive, run until it returns or suspends on an
\* empty inbox
RECURSIVE ScanInbox(_, _, _)
ScanInbox(inb, tmp, match) ==
    IF inb = <<>>
    THEN [found |-> FALSE, msg |-> <<>>, inbox |-> <<>>, tmp |-> tmp]
    ELSE LET msg == Head(inb) IN
         IF ~Matches(match, msg)
         THEN ScanInbox(Tail(inb), Enqueue(tmp, msg), match)
         ELSE LET c == CleanupInbox(Tail(inb), tmp) IN
              [found |-> TRUE, msg |-> msg, inbox |-> c.inbox, tmp |-> c.tmp]

\* the messages the while loop of _receive hands to match(msg), in order,
\* until it returns or suspends on an empty inbox (lines 183-185): they come
\* from inbox_ only, never from the scan buffer
RECURSIVE Tested(_, _)
Tested(inb, match) ==
    IF inb = <<>> THEN <<>>
    ELSE IF Matches(match, Head(inb)) THEN <<Head(inb)>>
    ELSE <<Head(inb)>> \o Tested(Tail(inb), match)

NoRet == [kind |-> "none", msg |-> <<>>]
IdleRcv == [pc |-> "idle", match |-> NoMatchArg, timeout |-> FALSE,
            callback |-> FALSE, started |-> FALSE]

LoopAlive == run_task \in {"created", "waiting", "ready"}

Init ==
    /\ passive_ \in BOOLEAN
    /\ cls_match \in ClassMatchers
    /\ inbox_ = <<>>
    /\ tmp_inbox = <<>>
    /\ run_task = IF passive_ THEN "none" ELSE "created"
    /\ wrapper = IF passive_ THEN "none" ELSE "awaiting"
    /\ rcv = IdleRcv
    /\ ret = NoRet
    /\ handled = <<>>
    /\ is_exiting_ = FALSE
    /\ signals = <<>>
    /\ monitored_by = EmptyMap
    /\ monitors = EmptyMap
    /\ links = {}
    /\ downs = EmptyBag
    /\ link_exits = EmptyBag
    /\ exited = <<>>
    /\ wake_ups = 0
    /\ last_error = "none"
    /\ inbox_ret = NoCount
    /\ pending = <<>>
    /\ n_delivered = 0
    /\ faulted = FALSE
    /\ got = <<>>
    /\ used_pattern = FALSE
    /\ last_demonitor = <<>>

\* deliver_message(msg) with a put that wakes nobody waiting on the inbox
DeliverNoWake(v) ==
    /\ n_delivered < MaxDeliver
    /\ n_delivered' = n_delivered + 1
    /\ LET msg == <<n_delivered + 1, v>> IN
       IF passive_
       THEN /\ handled' = Append(handled, msg)
            /\ UNCHANGED <<inbox_, pending, run_task, rcv>>
       ELSE /\ inbox_' = Enqueue(inbox_, msg)
            /\ pending' = Append(pending, msg)
            /\ UNCHANGED <<handled, run_task, rcv>>
    /\ last_error' = "none"
    /\ UNCHANGED histVars
    /\ UNCHANGED callVars
    /\ UNCHANGED <<passive_, cls_match, tmp_inbox, wrapper, ret, is_exiting_,
                   signals, wake_ups, faulted, got>>
    /\ UNCHANGED regVars
    /\ UNCHANGED nodeVars

\* deliver_message(msg)
Deliver(v) ==
    /\ n_delivered < MaxDeliver
    /\ n_delivered' = n_delivered + 1
    /\ LET msg == <<n_delivered + 1, v>> IN
       IF passive_
       THEN /\ handled' = Append(handled, msg)
            /\ UNCHANGED <<inbox_, pending, run_task, rcv>>
       ELSE /\ inbox_' = Enqueue(inbox_, msg)
            /\ pending' = Append(pending, msg)
            /\ run_task' = IF run_task = "waiting" THEN "ready" ELSE run_task
            /\ rcv' = IF rcv.pc = "waiting" THEN [rcv EXCEPT !.pc = "ready"]
                      ELSE rcv
            /\ UNCHANGED handled
    /\ last_error' = "none"
    /\ UNCHANGED histVars
    /\ UNCHANGED callVars
    /\ UNCHANGED <<passive_, cls_match, tmp_inbox, wrapper, ret, is_exiting_,
                   signals, wake_ups, faulted, got>>
    /\ UNCHANGED regVars
    /\ UNCHANGED nodeVars

\* ------------------------------------------------------ selective receive
\* _receive without the check of lines 179-180: the scan starts whatever
\* the scan buffer holds
StartReceiveUnchecked(r) ==
    LET s == ScanInbox(inbox_, tmp_inbox, EffectiveMatch(r.match)) IN
    /\ inbox_' = s.inbox
    /\ tmp_inbox' = s.tmp
    /\ last_error' = "none"
    /\ IF s.found
       THEN /\ rcv' = [r EXCEPT !.pc = "idle"]
            /\ ret' = [kind |-> "msg", msg |-> Run(s.msg)]
            /\ got' = Append(got, [msg |-> Run(s.msg), match |-> r.match])
            /\ pending' = RemoveMsg(pending, s.msg)
       ELSE /\ rcv' = [r EXCEPT !.pc = "waiting", !.started = TRUE]
            /\ ret' = NoRet
            /\ UNCHANGED <<pending, got>>

\* _receive from its first line (lines 175-190), as far as its first
\* suspension: the scan buffer must be empty, then the scan runs.
StartReceive(r) ==
    IF tmp_inbox # <<>>
    THEN /\ rcv' = [r EXCEPT !.pc = "idle"]
         /\ ret' = [kind |-> "value_error", msg |-> <<>>]
         /\ last_error' = "ValueError"
         /\ UNCHANGED <<inbox_, tmp_inbox, pending, got>>
    ELSE LET s == ScanInbox(inbox_, tmp_inbox, EffectiveMatch(r.match)) IN
         /\ inbox_' = s.inbox
         /\ tmp_inbox' = s.tmp
         /\ last_error' = "none"
         /\ IF s.found
            THEN /\ rcv' = [r EXCEPT !.pc = "idle"]
                 /\ ret' = [kind |-> "msg", msg |-> Run(s.msg)]
                 /\ got' = Append(got, [msg |-> Run(s.msg), match |-> r.match])
                 /\ pending' = RemoveMsg(pending, s.msg)
            ELSE /\ rcv' = [r EXCEPT !.pc = "waiting", !.started = TRUE]
                 /\ ret' = NoRet
                 /\ UNCHANGED <<pending, got>>

\* receive(match, timeout, timeout_callback) called by the owner's code.
\* Without a timeout _receive runs inside the call; with one, wait_for makes
\* it a task that starts at the next turn of the event loop.
ReceiveCall(match, timeout, callback) ==
    /\ rcv.pc = "idle"
    /\ ~LoopAlive
    /\ used_pattern' = (used_pattern \/ match # NoMatchArg)
    /\ UNCHANGED last_demonitor
    /\ UNCHANGED callVars
    /\ LET r == [pc |-> "ready", match |-> match, timeout |-> timeout,
                 callback |-> callback, started |-> FALSE] IN
       IF ~timeout
       THEN StartReceive(r)
       ELSE /\ rcv' = r
            /\ ret' = NoRet
            /\ last_error' = "none"
            /\ UNCHANGED <<inbox_, tmp_inbox, pending, got>>
    /\ UNCHANGED <<passive_, cls_match, run_task, wrapper, handled, is_exiting_,
                   signals, wake_ups, n_delivered, faulted>>
    /\ UNCHANGED regVars
    /\ UNCHANGED nodeVars

\* The receive task runs: its first step, or its resumption in
\* `await self.inbox_.get()` after a delivery woke it.
ReceiveRun ==
    /\ rcv.pc = "ready"
    /\ IF ~rcv.started
       THEN StartReceive(rcv)
       ELSE LET s == ScanInbox(inbox_, tmp_inbox, EffectiveMatch(rcv.match)) IN
            /\ inbox_' = s.inbox
            /\ tmp_inbox' = s.tmp
            /\ last_error' = "none"
            /\ IF s.found
               THEN /\ rcv' = [rcv EXCEPT !.pc = "idle"]
                    /\ ret' = [kind |-> "msg", msg |-> Run(s.msg)]
                    /\ got' = Append(got, [msg |-> Run(s.msg),
                                            match |-> rcv.match])
                    /\ pending' = RemoveMsg(pending, s.msg)
               ELSE /\ rcv' = [rcv EXCEPT !.pc = "waiting"]
                    /\ UNCHANGED <<ret, pending, got>>
    /\ UNCHANGED histVars
    /\ UNCHANGED callVars
    /\ UNCHANGED <<passive_, cls_match, run_task, wrapper, handled, is_exiting_,
                   signals, wake_ups, n_delivered, faulted>>
    /\ UNCHANGED regVars
    /\ UNCHANGED nodeVars

\* receive with `callable(timeout_callback)` taken as always false
TimeoutOutcomeAlwaysRaise(r) ==
    [inbox |-> inbox_, tmp |-> tmp_inbox, kind |-> "timeout_error"]

\* What receive does with asyncio.TimeoutError (lines 168-172): wait_for has
\* cancelled _receive where it was suspended; nothing is moved.
TimeoutOutcome(r) ==
    [inbox |-> inbox_, tmp |-> tmp_inbox,
     kind |-> IF r.callback THEN "callback" ELSE "timeout_error"]

\* The timer of wait_for expires while _receive is suspended on the empty
\* inbox (a task already woken runs before a timer that comes due later).
ReceiveTimeout ==
    /\ rcv.pc = "waiting"
    /\ rcv.timeout
    /\ LET o == TimeoutOutcome(rcv) IN
       /\ inbox_' = o.inbox
       /\ tmp_inbox' = o.tmp
       /\ ret' = [kind |-> o.kind, msg |-> <<>>]
       /\ last_error' = IF o.kind = "timeout_error" THEN "ProcessTimeoutError"
                        ELSE "none"
    /\ rcv' = [rcv EXCEPT !.pc = "idle"]
    /\ UNCHANGED histVars
    /\ UNCHANGED callVars
    /\ UNCHANGED <<passive_, cls_match, run_task, wrapper, handled, is_exiting_,
                   signals, wake_ups, pending, n_delivered, faulted,
                   got>>
    /\ UNCHANGED regVars
    /\ UNCHANGED nodeVars

\* ------------------------------------------------ process loop and wrapper
\* Task.cancel(): a task that has finished is left alone; process_loop has
\* no handler for CancelledError, so a live one ends cancelled at the await
\* it sits in, leaving both queues as they are.
CancelTask(t) == IF t \in {"created", "waiting", "ready"} THEN "cancelled" ELSE t

\* process_loop run until it suspends or ends.  fresh: the next thing is a
\* new iteration of its while loop (a new receive() call); otherwise it
\* resumes inside _receive.  f: how many handler calls return before one
\* raises.  The result names the new queues, the handler calls made, the
\* messages consumed and the way the step ended.
RECURSIVE LoopDrain(_, _, _, _, _, _)
LoopDrain(inb, tmp, hnd, used, f, fresh) ==
    IF fresh /\ is_exiting_
    THEN [inbox |-> inb, tmp |-> tmp, handled |-> hnd, consumed |-> used,
          st |-> "done", err |-> "none"]
    ELSE IF fresh /\ tmp # <<>>
    THEN [inbox |-> inb, tmp |-> tmp, handled |-> hnd, consumed |-> used,
          st |-> "failed", err |-> "ValueError"]
    ELSE LET s == ScanInbox(inb, tmp, EffectiveMatch(NoMatchArg)) IN
         IF ~s.found
         THEN [inbox |-> s.inbox, tmp |-> s.tmp, handled |-> hnd,
               consumed |-> used, st |-> "waiting", err |-> "none"]
         ELSE LET msg == Run(s.msg) IN
              IF ~Truthy(msg)
              THEN LoopDrain(s.inbox, s.tmp, hnd, used \cup {s.msg}, f, TRUE)
              ELSE IF f = 0
              THEN [inbox |-> s.inbox, tmp |-> s.tmp,
                    handled |-> Append(hnd, msg),
                    consumed |-> used \cup {s.msg},
                    st |-> "failed", err |-> "handler"]
              ELSE LoopDrain(s.inbox, s.tmp, Append(hnd, msg),
                             used \cup {s.msg}, f - 1, TRUE)

\* The loop task gets the processor: its first step, or its resumption
\* after a delivery.
LoopRun(f) ==
    /\ run_task \in {"created", "ready"}
    /\ rcv.pc = "idle"
    /\ LET d == LoopDrain(inbox_, tmp_inbox, handled, {}, f,
                          run_task = "created") IN
       /\ inbox_' = d.inbox
       /\ tmp_inbox' = d.tmp
       /\ handled' = d.handled
       /\ pending' = SelectSeq(pending, LAMBDA x : x \notin d.consumed)
       /\ run_task' = d.st
       /\ faulted' = (faulted \/ d.err = "handler")
       /\ last_error' = IF d.err = "handler" THEN "HandlerError" ELSE d.err
    /\ UNCHANGED histVars
    /\ UNCHANGED callVars
    /\ UNCHANGED <<passive_, cls_match, wrapper, rcv, ret, is_exiting_, signals,
                   wake_ups, n_delivered, got>>
    /\ UNCHANGED regVars
    /\ UNCHANGED nodeVars

\* ------------------------------------------------------------ exit protocol
\* _trigger_monitors: one DOWN message per entry of _monitored_by, as the
\* bag of (receiver, message) pairs handed to node.send_nowait
TriggerMonitors(reason) ==
    SetToBag({ <<monitored_by[ref],
                 <<"DOWN", ref, "process", Self, reason>> >> :
               ref \in DOMAIN monitored_by })

\* _trigger_links, lines 315-318: the reason the links see, or "none" when
\* nothing is sent
LinkReason(reason) ==
    IF reason = "normal" THEN "none"
    ELSE IF reason = "kill" THEN "killed"
    ELSE reason

\* _trigger_links, lines 320-325: the bag of (receiver, reason) pairs handed
\* to node.send_link_exit_notification
TriggerLinks(reason) ==
    IF LinkReason(reason) = "none" THEN EmptyBag
    ELSE SetToBag({ <<link, LinkReason(reason)>> : link \in links })

\* _on_exit_signal with a _trigger_links that takes any reason
OnExitSignalAnyReason(reason) ==
    LET r == IF reason = NoReason THEN "normal" ELSE reason IN
    IF passive_
    THEN /\ last_error' = "AttributeError"
         /\ UNCHANGED <<run_task, is_exiting_, downs, link_exits, exited>>
    ELSE /\ run_task' = CancelTask(run_task)
         /\ is_exiting_' = TRUE
         /\ downs' = downs (+) TriggerMonitors(r)
         /\ link_exits' = link_exits (+) TriggerLinks(r)
         /\ exited' = Append(exited, r)
         /\ last_error' = "none"

\* _on_exit_signal(reason).  A passive process has no _run_task attribute,
\* so line 277 raises AttributeError before anything else happens; a reason
\* that is no Atom makes _trigger_links raise after the monitors were told.
OnExitSignal(reason) ==
    LET r == IF reason = NoReason THEN "normal" ELSE reason IN
    IF passive_
    THEN /\ last_error' = "AttributeError"
         /\ UNCHANGED <<run_task, is_exiting_, downs, link_exits, exited>>
    ELSE /\ run_task' = CancelTask(run_task)
         /\ is_exiting_' = TRUE
         /\ downs' = downs (+) TriggerMonitors(r)
         /\ IF r \notin Atoms
            THEN /\ last_error' = "AttributeError"
                 /\ UNCHANGED <<link_exits, exited>>
            ELSE /\ link_exits' = link_exits (+) TriggerLinks(r)
                 /\ exited' = Append(exited, r)
                 /\ last_error' = "none"

\* run_wrapper with a failed loop treated like a finished one
WrapperOutcomeSwallow(task, exiting) ==
    IF task = "cancelled" /\ ~exiting THEN "raised" ELSE "returned"

\* run_wrapper, lines 124-143, by the way the awaited loop task ended:
\* cancelled while exiting or finished cleanly, it returns; cancelled while
\* not exiting, it re-raises CancelledError; failed, it goes on to line 143.
WrapperOutcome(task, exiting) ==
    IF task = "cancelled" THEN (IF exiting THEN "returned" ELSE "raised")
    ELSE IF task = "done" THEN "returned"
    ELSE "exited"

\* run_wrapper resumes when the loop task has ended.
WrapperRun ==
    /\ wrapper = "awaiting"
    /\ run_task \in {"cancelled", "failed", "done"}
    /\ wrapper' = WrapperOutcome(run_task, is_exiting_)
    /\ IF wrapper' = "exited"
       THEN OnExitSignal("unhandledexception")
       ELSE /\ last_error' = IF wrapper' = "raised" THEN "CancelledError"
                             ELSE "none"
            /\ UNCHANGED <<run_task, is_exiting_, downs, link_exits, exited>>
    /\ UNCHANGED histVars
    /\ UNCHANGED callVars
    /\ UNCHANGED <<passive_, cls_match, inbox_, tmp_inbox, rcv, ret, handled,
                   signals, wake_ups, pending, n_delivered, faulted,
                   got>>
    /\ UNCHANGED regVars

\* exit(reason)
Exit(reason) ==
    /\ wake_ups < MaxExitCalls
    /\ signals' = Append(signals, reason)
    /\ wake_ups' = wake_ups + 1
    /\ last_error' = "none"
    /\ UNCHANGED histVars
    /\ UNCHANGED callVars
    /\ UNCHANGED <<passive_, cls_match, inbox_, tmp_inbox, run_task, wrapper,
                   rcv, ret, handled, is_exiting_, pending, n_delivered,
                   faulted, got, used_pattern>>
    /\ UNCHANGED regVars
    /\ UNCHANGED nodeVars

\* handle_signals() taking the newest signal instead of the oldest
HandleSignalsNewestFirst ==
    /\ signals # <<>>
    /\ signals' = SubSeq(signals, 1, Len(signals) - 1)
    /\ OnExitSignal(signals[Len(signals)])
    /\ UNCHANGED histVars
    /\ UNCHANGED callVars
    /\ UNCHANGED <<passive_, cls_match, inbox_, tmp_inbox, wrapper, rcv, ret,
                   handled, wake_ups, pending, n_delivered, faulted,
                   got>>
    /\ UNCHANGED regVars

\* handle_signals(), from the moment a signal is there to take
HandleSignals ==
    /\ signals # <<>>
    /\ signals' = Tail(signals)
    /\ OnExitSignal(Head(signals))
    /\ UNCHANGED histVars
    /\ UNCHANGED callVars
    /\ UNCHANGED <<passive_, cls_match, inbox_, tmp_inbox, wrapper, rcv, ret,
                   handled, wake_ups, pending, n_delivered, faulted,
                   got>>
    /\ UNCHANGED regVars

\* destroy()
Destroy ==
    /\ IF passive_
       THEN /\ last_error' = "AttributeError"
            /\ UNCHANGED run_task
       ELSE /\ run_task' = CancelTask(run_task)
            /\ last_error' = "none"
    /\ UNCHANGED histVars
    /\ UNCHANGED callVars
    /\ UNCHANGED <<passive_, cls_match, inbox_, tmp_inbox, wrapper, rcv, ret,
                   handled, is_exiting_, signals, wake_ups, pending,
                   n_delivered, faulted, got>>
    /\ UNCHANGED regVars
    /\ UNCHANGED nodeVars

\* ---------------------------------------------------------- handle_inbox
\* the loop of handle_inbox handing only truthy messages to the handler
RECURSIVE DrainInboxTruthyOnly(_, _, _, _)
DrainInboxTruthyOnly(inb, hnd, n, f) ==
    IF inb = <<>>
    THEN [inbox |-> inb, handled |-> hnd, n |-> n, raised |-> FALSE]
    ELSE LET msg == Head(inb) IN
         IF ~Truthy(msg)
         THEN DrainInboxTruthyOnly(Tail(inb), hnd, n + 1, f)
         ELSE IF f = 0
         THEN [inbox |-> Tail(inb), handled |-> Append(hnd, msg),
               n |-> n + 1, raised |-> TRUE]
         ELSE DrainInboxTruthyOnly(Tail(inb), Append(hnd, msg), n + 1, f - 1)

\* the loop of handle_inbox (lines 218-225): get_nowait, count, call the
\* handler, until QueueEmpty.  f: how many handler calls return before one
\* raises.  The result names the new inbox, the handler calls made, the
\* count and whether the handler's exception ended the loop.
RECURSIVE DrainInbox(_, _, _, _)
DrainInbox(inb, hnd, n, f) ==
    IF inb = <<>>
    THEN [inbox |-> inb, handled |-> hnd, n |-> n, raised |-> FALSE]
    ELSE LET msg == Head(inb) IN
         IF f = 0
         THEN [inbox |-> Tail(inb), handled |-> Append(hnd, msg),
               n |-> n + 1, raised |-> TRUE]
         ELSE DrainInbox(Tail(inb), Append(hnd, msg), n + 1, f - 1)

\* handle_inbox(): synchronous, so one step.  A task suspended in
\* inbox_.get() is not resumed by it and finds the inbox empty when it runs.
HandleInbox(f) ==
    /\ LET d == DrainInbox(inbox_, handled, 0, f) IN
       /\ inbox_' = d.inbox
       /\ handled' = d.handled
       /\ pending' = SelectSeq(pending, LAMBDA x :
                         \A i \in 1..(Len(inbox_) - Len(d.inbox)) :
                             inbox_[i] # x)
       /\ inbox_ret' = IF d.raised THEN NoCount
                       ELSE [returned |-> TRUE, n |-> d.n]
       /\ last_error' = IF d.raised THEN "HandlerError" ELSE "none"
    /\ UNCHANGED histVars
    /\ UNCHANGED <<passive_, cls_match, tmp_inbox, run_task, wrapper, rcv, ret,
                   is_exiting_, signals, wake_ups, n_delivered, faulted, got>>
    /\ UNCHANGED regVars
    /\ UNCHANGED nodeVars

\* ------------------------------------------------- link / monitor registry
MapPut(map, ref, pid) ==
    [r \in DOMAIN map \cup {ref} |-> IF r = ref THEN pid ELSE map[r]]

\* remove_monitor / remove_monitored_by deleting whatever is stored under
\* the reference
MapRemoveUnguarded(map, ref, pid) ==
    [r \in DOMAIN map \ {ref} |-> map[r]]

\* the guarded delete of remove_monitor / remove_monitored_by
MapRemove(map, ref, pid) ==
    IF ref \in DOMAIN map /\ map[ref] = pid
    THEN [r \in DOMAIN map \ {ref} |-> map[r]]
    ELSE map

RegFrame ==
    /\ UNCHANGED used_pattern
    /\ UNCHANGED callVars
    /\ UNCHANGED <<passive_, cls_match, inbox_, tmp_inbox, run_task, wrapper,
                   rcv, ret, handled, is_exiting_, signals, wake_ups, pending,
                   n_delivered, faulted, got>>
    /\ UNCHANGED nodeVars

AddLink(pid) ==
    /\ RegFrame
    /\ links' = links \cup {pid}
    /\ last_error' = "none"
    /\ UNCHANGED <<monitored_by, monitors, last_demonitor>>

RemoveLink(pid) ==
    /\ RegFrame
    /\ links' = links \ {pid}
    /\ last_error' = IF pid \in links THEN "none" ELSE "KeyError"
    /\ UNCHANGED <<monitored_by, monitors, last_demonitor>>

AddMonitor(pid, ref) ==
    /\ RegFrame
    /\ monitors' = MapPut(monitors, ref, pid)
    /\ last_demonitor' = <<>>
    /\ last_error' = "none"
    /\ UNCHANGED <<monitored_by, links>>

AddMonitoredBy(pid, ref) ==
    /\ RegFrame
    /\ monitored_by' = MapPut(monitored_by, ref, pid)
    /\ last_error' = "none"
    /\ UNCHANGED <<monitors, links, last_demonitor>>

RemoveMonitor(pid, ref) ==
    /\ RegFrame
    /\ monitors' = MapRemove(monitors, ref, pid)
    /\ last_demonitor' = <<pid, ref>>
    /\ last_error' = "none"
    /\ UNCHANGED <<monitored_by, links>>

RemoveMonitoredBy(pid, ref) ==
    /\ RegFrame
    /\ monitored_by' = MapRemove(monitored_by, ref, pid)
    /\ last_error' = "none"
    /\ UNCHANGED <<monitors, links, last_demonitor>>

\* ------------------------------------------------------------ specifications
Next ==
    \/ \E v \in Vals : Deliver(v)
    \/ \E m \in Matchers, t \in BOOLEAN, c \in BOOLEAN : ReceiveCall(m, t, c)
    \/ ReceiveRun
    \/ ReceiveTimeout
    \/ \E f \in 0..Len(inbox_) : LoopRun(f)
    \/ \E f \in 0..Len(inbox_) : HandleInbox(f)
    \/ WrapperRun
    \/ \E r \in ExitReasons : Exit(r)
    \/ HandleSignals
    \/ Destroy
    \/ \E p \in Pids : AddLink(p)
    \/ \E p \in Pids : RemoveLink(p)
    \/ \E p \in Pids, r \in Refs : AddMonitor(p, r)
    \/ \E p \in Pids, r \in Refs : AddMonitoredBy(p, r)
    \/ \E p \in Pids, r \in Refs : RemoveMonitor(p, r)
    \/ \E p \in Pids, r \in Refs : RemoveMonitoredBy(p, r)

Spec == Init /\ [][Next]_vars

\* The mailbox side: every payload and matcher.  destroy() stands for every
\* way the loop task gets cancelled; links, monitors and signals stay empty.
NextMbox ==
    \/ \E v \in Vals : Deliver(v)
    \/ \E m \in Matchers, t \in BOOLEAN, c \in BOOLEAN :
           (c => t) /\ ReceiveCall(m, t, c)
    \/ ReceiveRun
    \/ ReceiveTimeout
    \/ \E f \in 0..Len(inbox_) : LoopRun(f)
    \/ WrapperRun
    \/ Destroy

SpecMbox == Init /\ [][NextMbox]_vars

\* The event loop runs every task that is ready: the receive task, or the
\* caller's task suspended in receive(), once a delivery has woken it.
SpecMboxFair == SpecMbox /\ WF_vars(ReceiveRun)

\* The exit side: every reason, links and monitored_by.  One message is
\* enough to make the handler raise, the owner's code calls no receive(), and
\* peers link, unlink, monitor and demonitor only a process that is not yet
\* exiting.
NextExit ==
    \/ (n_delivered = 0 /\ Deliver(1))
    \/ \E f \in 0..Len(inbox_) : LoopRun(f)
    \/ WrapperRun
    \/ \E r \in ExitReasons : Exit(r)
    \/ HandleSignals
    \/ Destroy
    \/ (~is_exiting_ /\ \E p \in Pids : AddLink(p))
    \/ (~is_exiting_ /\ \E p \in Pids : RemoveLink(p))
    \/ (~is_exiting_ /\ \E p \in Pids, r \in Refs : AddMonitoredBy(p, r))
    \/ (~is_exiting_ /\ \E p \in Pids, r \in Refs : RemoveMonitoredBy(p, r))

SpecExit == Init /\ [][NextExit]_vars

\* The event loop resumes run_wrapper once the task it awaits has ended.
SpecExitFair == SpecExit /\ WF_vars(WrapperRun)

\* The registry side: peers link, unlink, monitor and demonitor, with every
\* identity under every reference.
NextReg ==
    \/ \E p \in Pids : AddLink(p)
    \/ \E p \in Pids : RemoveLink(p)
    \/ \E p \in Pids, r \in Refs : AddMonitor(p, r)
    \/ \E p \in Pids, r \in Refs : AddMonitoredBy(p, r)
    \/ \E p \in Pids, r \in Refs : RemoveMonitor(p, r)
    \/ \E p \in Pids, r \in Refs : RemoveMonitoredBy(p, r)

SpecReg == Init /\ [][NextReg]_vars

\* The polling side: messages are delivered and handle_inbox() is called
\* at any moment, beside the loop task of an active process.
NextInbox ==
    \/ \E v \in Vals : Deliver(v)
    \/ \E f \in 0..Len(inbox_) : HandleInbox(f)
    \/ \E f \in 0..Len(inbox_) : LoopRun(f)
    \/ WrapperRun
    \/ Destroy

SpecInbox == Init /\ [][NextInbox]_vars

\* ------------------------------------------------------------------ claims
NoReceiveInProgress == rcv.pc = "idle" /\ run_task \notin {"waiting", "ready"}

HasMatch(seq, match) == \E i \in 1..Len(seq) : Matches(match, seq[i])

FirstMatchIndex(seq, match) ==
    CHOOSE i \in 1..Len(seq) :
        /\ Matches(match, seq[i])
        /\ \A j \in 1..(i - 1) : ~Matches(match, seq[j])

\* a step of the caller's receive() in which _receive scans the inbox: the
\* call itself when it has no timeout, or a run of the receive task, in
\* both cases past the check of the scan buffer
ScanStep ==
    \/ /\ rcv.pc = "idle"
       /\ tmp_inbox = <<>>
       /\ \E m \in Matchers : ReceiveCall(m, FALSE, FALSE)
    \/ /\ rcv.pc = "ready"
       /\ rcv.started \/ tmp_inbox = <<>>
       /\ ReceiveRun

\* C1: a receive whose pattern matches some message of the mailbox M
\* (everything delivered and not consumed, in arrival order) returns the
\* first message of M that matches, and leaves the mailbox equal to M
\* without that message, the others in their arrival order and the scan
\* buffer empty.
C1_SelectiveReceiveRestoration ==
    [][ (ScanStep /\ HasMatch(pending, EffectiveMatch(rcv'.match))) =>
          LET i == FirstMatchIndex(pending, EffectiveMatch(rcv'.match)) IN
          /\ rcv'.pc = "idle"
          /\ ret' = [kind |-> "msg", msg |-> pending[i]]
          /\ inbox_' = RemoveAt(pending, i)
          /\ tmp_inbox' = <<>> ]_vars

\* C1 witness: a selective receive has returned a message that had an
\* older message before it and a newer one behind it, both now in the mailbox.
C1_Witness ==
    /\ rcv.pc = "idle"
    /\ rcv.match = "two"
    /\ ret.kind = "msg"
    /\ Len(inbox_) = 2
    /\ inbox_[1][1] < ret.msg[1]
    /\ ret.msg[1] < inbox_[2][1]

\* C2: whenever no receive call is in progress the scan buffer is empty.
C2_ScanBufferEmptyWhenIdle == NoReceiveInProgress => tmp_inbox = <<>>

\* C3: when a receive has ended by timeout, the mailbox holds every message
\* that was delivered and not consumed, in delivery order.
C3_TimeoutLosesNothing ==
    (rcv.pc = "idle" /\ ret.kind \in {"timeout_error", "callback"}) =>
        inbox_ = pending

\* C10: with the default matcher and no receive call with a pattern so far,
\* the messages returned so far followed by the mailbox are the latest
\* deliveries in delivery order, each once (the loop took the ones before).
C10_FifoOrder ==
    (cls_match = MatchAll /\ ~used_pattern) =>
        LET q == [i \in DOMAIN got |-> got[i].msg] \o inbox_ IN
        \A i \in 1..Len(q) :
            /\ q[i][1] = n_delivered - Len(q) + i
            /\ q[i] \notin {q[j] : j \in 1..(i - 1)}

\* C10 witness: three messages were delivered and three receive calls
\* without a pattern returned them, leaving the mailbox empty.
C10_Witness ==
    /\ cls_match = MatchAll
    /\ Len(got) = MaxDeliver
    /\ ~used_pattern
    /\ inbox_ = <<>>
    /\ rcv.pc = "idle"
\* The DOWN messages the monitor owners are due for an exit with `reason`,
\* as (receiver, message) pairs, and the link-exit notifications the linked
\* peers are due, as (receiver, reason) pairs.
ExpectedDowns(reason) ==
    SetToBag({ <<monitored_by[ref], <<"DOWN", ref, "process", Self, reason>> >> :
               ref \in DOMAIN monitored_by })

ExpectedLinkExits(reason) == SetToBag({ <<peer, reason>> : peer \in links })

\* how many copies a bag holds of the elements that satisfy Test
CountIn(bag, Test(_)) ==
    BagCardinality([e \in {x \in DOMAIN bag : Test(x)} |-> bag[e]])

\* the step in which handle_signals hands `reason` to the exit handler
SignalProcessed(reason) ==
    signals # <<>> /\ signals' = Tail(signals) /\ Head(signals) = reason

\* the step in which run_wrapper ends after its loop task has ended
WrapperEnds == wrapper = "awaiting" /\ wrapper' # "awaiting"

\* C4: each monitor owner gets at most one DOWN per reference, each linked
\* peer at most one link-exit notification, and on_exit_process is called at
\* most once.
C4_ExitProtocolAtMostOnce ==
    /\ Len(exited) <= 1
    /\ \A ref \in Refs :
          CountIn(downs, LAMBDA x : x[2][2] = ref) <= 1
    /\ \A peer \in Pids :
          CountIn(link_exits, LAMBDA x : x[1] = peer) <= 1

\* C5: when the loop task was cancelled while is_exiting was false, the
\* wrapper runs the exit handler with reason unhandledexception: monitors,
\* links and registry are told.
C5_CancelBecomesExit ==
    [][ (WrapperEnds /\ run_task = "cancelled" /\ ~is_exiting_) =>
          /\ is_exiting_'
          /\ downs' = downs (+) ExpectedDowns("unhandledexception")
          /\ link_exits' = link_exits (+) ExpectedLinkExits("unhandledexception")
          /\ exited' = Append(exited, "unhandledexception") ]_vars

UnhandledExits ==
    Cardinality({i \in DOMAIN exited : exited[i] = "unhandledexception"})

UnhandledDowns == CountIn(downs, LAMBDA x : x[2][5] = "unhandledexception")

UnhandledLinkExits ==
    CountIn(link_exits, LAMBDA x : x[2] = "unhandledexception")

\* C6: after the message handler raised in the loop, the wrapper runs, and
\* its step is one whole exit cycle with reason unhandledexception (one DOWN
\* per monitor entry, one link-exit per linked peer, one on_exit_process
\* call); no other step sends anything with that reason, so the cycle
\* happens once and not twice.
C6_FaultExactlyOneExit ==
    /\ [][ (WrapperEnds /\ run_task = "failed") =>
             /\ faulted
             /\ UnhandledExits = 0
             /\ is_exiting_'
             /\ downs' = downs (+) ExpectedDowns("unhandledexception")
             /\ link_exits' =
                  link_exits (+) ExpectedLinkExits("unhandledexception")
             /\ exited' = Append(exited, "unhandledexception") ]_vars
    /\ [][ ( \/ UnhandledExits' # UnhandledExits
             \/ UnhandledDowns' # UnhandledDowns
             \/ UnhandledLinkExits' # UnhandledLinkExits ) =>
             (WrapperEnds /\ run_task = "failed") ]_vars
    /\ [](faulted =>
             IF wrapper = "awaiting"
             THEN run_task = "failed" /\ UnhandledExits = 0
             ELSE wrapper = "exited" /\ UnhandledExits = 1)
    /\ (faulted ~> (wrapper = "exited" /\ UnhandledExits = 1))

\* C6 witness: the handler raised, no exit() was ever called, and the
\* wrapper has told two monitor owners, a linked peer and the registry.
C6_Witness ==
    /\ faulted
    /\ wake_ups = 0
    /\ wrapper = "exited"
    /\ exited = <<"unhandledexception">>
    /\ UnhandledDowns = 2
    /\ UnhandledLinkExits >= 1

\* the reason the exit handler works with: line 274-275
Defaulted(reason) == IF reason = NoReason THEN "normal" ELSE reason

\* C7: a passive process that processes an exit signal sets is_exiting,
\* sends a DOWN per monitor entry, notifies the links according to the
\* reason and calls on_exit_process.
C7_PassiveExitCompletes ==
    [][ \A reason \in ExitReasons :
          (passive_ /\ SignalProcessed(reason)) =>
             /\ is_exiting_'
             /\ downs' = downs (+) ExpectedDowns(Defaulted(reason))
             /\ Defaulted(reason) \in Atoms =>
                  exited' = Append(exited, Defaulted(reason)) ]_vars

\* C8: an exit handler run with reason normal, or with no reason, sends no
\* link-exit notification and sends each monitor entry one DOWN with the
\* entry's reference, this process's identity and the reason normal.
C8_NormalExitSkipsLinks ==
    [][ \A reason \in {NoReason, "normal"} :
          SignalProcessed(reason) =>
             /\ link_exits' = link_exits
             /\ downs' = downs (+) ExpectedDowns("normal") ]_vars

\* C9: an exit handler run with reason kill sends every linked peer the
\* reason killed, with any other atom but normal it sends that atom; the
\* DOWN messages and on_exit_process carry the reason as it was given.
C9_KillRemapping ==
    [][ \A reason \in ExitReasons \cap (Atoms \ {"normal"}) :
          SignalProcessed(reason) =>
             /\ link_exits' = link_exits (+)
                  ExpectedLinkExits(IF reason = "kill" THEN "killed" ELSE reason)
             /\ downs' = downs (+) ExpectedDowns(reason)
             /\ exited' = Append(exited, reason) ]_vars

\* the step in which the caller's receive(), called with a timeout, ends
TimedReceiveEnds == rcv.timeout /\ rcv.pc # "idle" /\ rcv'.pc = "idle"

\* C11: a receive called with a timeout expires only while it is suspended
\* with no message left to test; at expiry it raises ProcessTimeoutError
\* when it has no callable callback and returns the callback's result,
\* raising nothing, when it has one.  When a message that matches is in the
\* mailbox as the receive task runs, that message is returned and neither
\* timeout outcome occurs.
C11_TimeoutOutcome ==
    /\ [][ (TimedReceiveEnds /\ rcv.pc = "waiting") =>
             /\ inbox_ = <<>>
             /\ ret' = [kind |-> IF rcv.callback THEN "callback"
                                 ELSE "timeout_error",
                        msg |-> <<>>]
             /\ last_error' = IF rcv.callback THEN "none"
                              ELSE "ProcessTimeoutError" ]_vars
    /\ [][ ( /\ rcv.timeout
             /\ rcv.pc = "ready"
             /\ rcv.started \/ tmp_inbox = <<>>
             /\ HasMatch(inbox_, EffectiveMatch(rcv.match))
             /\ rcv' # rcv ) =>
             /\ rcv'.pc = "idle"
             /\ ret'.kind = "msg"
             /\ ret'.msg =
                  inbox_[FirstMatchIndex(inbox_, EffectiveMatch(rcv.match))]
             /\ last_error' = "none" ]_vars
    /\ [][ (TimedReceiveEnds /\ ret'.kind \in {"timeout_error", "callback"})
             => rcv.pc = "waiting" ]_vars

\* C11 witness: a receive with a timeout and a callback tested a message
\* that did not match, expired, and returned the callback's result.
C11_Witness ==
    /\ rcv.pc = "idle"
    /\ rcv.timeout
    /\ rcv.callback
    /\ rcv.match = "two"
    /\ ret.kind = "callback"
    /\ last_error = "none"
    /\ pending # <<>>

\* the step in which _receive runs its first lines for the caller's
\* receive(): the call itself when it has no timeout, the first run of the
\* receive task when it has one
ReceiveStarts ==
    \/ /\ rcv.pc = "idle"
       /\ \E m \in Matchers : ReceiveCall(m, FALSE, FALSE)
    \/ /\ rcv.pc = "ready"
       /\ ~rcv.started
       /\ ReceiveRun

\* C12: a receive started while the scan buffer is not empty ends in that
\* very step with ValueError; no message is taken, and the mailbox, the
\* scan buffer and what was received so far are as they were.
C12_UsageViolationFailsFast ==
    [][ (ReceiveStarts /\ tmp_inbox # <<>>) =>
          /\ rcv'.pc = "idle"
          /\ ret' = [kind |-> "value_error", msg |-> <<>>]
          /\ last_error' = "ValueError"
          /\ inbox_' = inbox_
          /\ tmp_inbox' = tmp_inbox
          /\ pending' = pending
          /\ got' = got ]_vars

\* C12 witness: a receive has failed on a scan buffer left behind, with a
\* message in the mailbox that its matcher would have accepted.
C12_Witness ==
    /\ rcv.pc = "idle"
    /\ ret.kind = "value_error"
    /\ last_error = "ValueError"
    /\ tmp_inbox # <<>>
    /\ HasMatch(inbox_, EffectiveMatch(rcv.match))

\* the step of an exit() call: the only one that wakes the node
ExitCalled == wake_ups' # wake_ups

\* a step that takes something out of the signal queue
SignalDequeued == Len(signals') < Len(signals)

Without(map, ref) == [x \in DOMAIN map \ {ref} |-> map[x]]

\* what is left of a map after a demonitor naming pid and ref
AfterDemonitor(map, pid, ref) ==
    IF ref \in DOMAIN map /\ map[ref] = pid THEN Without(map, ref) ELSE map

\* C14: remove_monitor(target, ref) deletes the entry of ref from the
\* monitors map when it holds target and leaves the map as it is when ref
\* is absent or holds another identity; it raises nothing and changes
\* neither monitored_by nor the links.  remove_monitored_by(owner, ref) does
\* the same to monitored_by and changes neither monitors nor the links.
C14_DemonitorRaceSafety ==
    [][ \A p \in Pids, r \in Refs :
          /\ RemoveMonitor(p, r) =>
               /\ monitors' = AfterDemonitor(monitors, p, r)
               /\ last_error' = "none"
               /\ UNCHANGED <<monitored_by, links>>
          /\ RemoveMonitoredBy(p, r) =>
               /\ monitored_by' = AfterDemonitor(monitored_by, p, r)
               /\ last_error' = "none"
               /\ UNCHANGED <<monitors, links>> ]_vars

\* C14 witness: the latest monitor operation was remove_monitor(p2, r1)
\* while r1 held p1, and the entry is still there.
C14_Witness ==
    /\ last_demonitor = <<"p2", "r1">>
    /\ "r1" \in DOMAIN monitors
    /\ monitors["r1"] = "p1"

\* the step of a handle_inbox() call in which no handler call raises
InboxDrained ==
    /\ \E f \in 0..Len(inbox_) : HandleInbox(f)
    /\ last_error' # "HandlerError"

\* C15: handle_inbox() can be called in every state and is one step (it
\* never waits for a message).  When the handler raises nothing, the call
\* hands the k messages of the mailbox to the handler, each once, in mailbox
\* order and whatever the process's matcher or the message's value, returns
\* k and leaves the mailbox empty; the scan buffer and the tasks are not
\* touched.
C15_HandleInboxDrains ==
    /\ [](ENABLED HandleInbox(Len(inbox_)))
    /\ [][ InboxDrained =>
             /\ handled' = handled \o inbox_
             /\ inbox_ret' = [returned |-> TRUE, n |-> Len(inbox_)]
             /\ inbox_' = <<>>
             /\ UNCHANGED <<tmp_inbox, run_task, wrapper, rcv>> ]_vars

\* C15 witness: handle_inbox() returned 3 after handing three messages to
\* the handler of a process whose matcher accepts only the payload 2, among
\* them the falsy payload 0 and another payload the matcher rejects.
C15_Witness ==
    /\ ~passive_
    /\ cls_match = "two"
    /\ inbox_ret = [returned |-> TRUE, n |-> 3]
    /\ Len(handled) = 3
    /\ \E i \in 1..3 : Payload(handled[i]) = 0
    /\ \E i \in 1..3 : Payload(handled[i]) = 1
    /\ inbox_ = <<>>

\* a step of the loop task of a process that is not exiting
LoopStep == ~is_exiting_ /\ \E f \in 0..Len(inbox_) : LoopRun(f)

\* the messages a step takes out of the delivered and unconsumed ones, in
\* delivery order
ConsumedInStep ==
    SelectSeq(pending, LAMBDA x : \A i \in 1..Len(pending') : pending'[i] # x)

\* C16: every step of the process loop of an active process that is not
\* exiting hands each message it consumes to handle_one_inbox_message, once
\* and in the order consumed, whatever the message's value.
C16_EveryMessageReachesHandler ==
    [][ LoopStep => handled' = handled \o ConsumedInStep ]_vars

\* the step in which the caller's receive(), suspended on the empty inbox,
\* runs again after a delivery
ReceiveResumes == rcv.pc = "ready" /\ rcv.started /\ ReceiveRun

\* C17: when a suspended receive runs again after a delivery, the messages
\* it hands to its matcher begin with the messages it skipped before, in
\* their order, and the new message comes after them.
C17_RescanOnNewArrival ==
    [][ ReceiveResumes =>
          LET t == Tested(inbox_, EffectiveMatch(rcv.match)) IN
          /\ Len(t) >= Len(tmp_inbox)
          /\ SubSeq(t, 1, Len(tmp_inbox)) = tmp_inbox ]_vars

\* the caller's receive() was suspended on the empty inbox, a delivery has
\* woken it, and a message its matcher accepts is in the mailbox
WokenWithMatch ==
    /\ ~passive_
    /\ rcv.pc = "ready"
    /\ rcv.started
    /\ HasMatch(inbox_, EffectiveMatch(rcv.match))

\* C18: a delivery to an active process appends the message to the mailbox
\* and makes a receive suspended on the empty mailbox ready to run; a
\* receive woken with a matching message in the mailbox eventually returns,
\* and the step in which it returns hands back the first such message,
\* which is the delivered one.  Nothing times it out in between: once it
\* is ready it leaves that state only by running.
C18_SuspendedReceiveWoken ==
    /\ [][ (~passive_ /\ rcv.pc = "waiting" /\ n_delivered' # n_delivered) =>
             /\ inbox_ = <<>>
             /\ Len(inbox_') = 1
             /\ rcv' = [rcv EXCEPT !.pc = "ready"] ]_vars
    /\ [][ (WokenWithMatch /\ rcv' # rcv) =>
             /\ rcv'.pc = "idle"
             /\ ret' = [kind |-> "msg",
                        msg |-> inbox_[FirstMatchIndex(inbox_,
                                           EffectiveMatch(rcv.match))]]
             /\ got' = Append(got, [msg |-> ret'.msg, match |-> rcv.match])
          ]_vars
    /\ (WokenWithMatch ~> (rcv.pc = "idle" /\ ret.kind = "msg"))

\* C18 witness: a receive that had skipped a message and was suspended has
\* returned the matching message delivered afterwards.
C18_Witness ==
    /\ ~passive_
    /\ rcv.pc = "idle"
    /\ rcv.started
    /\ rcv.match = "two"
    /\ ret.kind = "msg"
    /\ Len(inbox_) = 1
    /\ inbox_[1][1] < ret.msg[1]
    /\ n_delivered = 2

\* C19: when the exit handler is given a reason that is there and is no
\* atom, the call ends with AttributeError and no linked peer is sent a
\* link-exit notification, with links or without.
C19_NonAtomReasonRejected ==
    [][ SignalProcessed(NonAtom) =>
          /\ last_error' = "AttributeError"
          /\ link_exits' = link_exits ]_vars

\* C19 witness: an active process with a linked peer and a monitor owner
\* has processed exit("str"): the owner got its DOWN with that reason, the
\* call raised, and no link-exit notification was ever sent.
C19_Witness ==
    /\ ~passive_
    /\ links # {}
    /\ wake_ups = 1
    /\ signals = <<>>
    /\ last_error = "AttributeError"
    /\ CountIn(downs, LAMBDA x : x[2][5] = NonAtom) = 1
    /\ link_exits = EmptyBag

\* C20: a step that sends a DOWN to a monitor owner also calls
\* on_exit_process, and in no state is the process exiting with monitor
\* owners told and the registry never notified.
C20_ExitAllOrNothing ==
    /\ [][ (downs' # downs) => Len(exited') = Len(exited) + 1 ]_vars
    /\ []((is_exiting_ /\ downs # EmptyBag) => exited # <<>>)
====
